---- MODULE Spec2Model ----
(***************************************************************************)
(* Batch certificate generation and delivery pipeline of the UNEMI         *)
(* certificate manager (apps/certificado): the Certificado state machine   *)
(* driven by the Celery tasks, the web/admin requests that enqueue them,   *)
(* the ProcesamientoLote aggregate and the two daily e-mail counters.      *)
(*                                                                         *)
(* One Evento is modelled.  Every database statement is one atomic step;   *)
(* a model instance loaded by a task or a request is a local copy, and     *)
(* save() writes every column of that copy back (save(update_fields=...)   *)
(* writes only the named columns).  Tasks taken from the broker run        *)
(* concurrently on NumWorkers workers; web requests run concurrently too. *)
(*                                                                         *)
(* The service and the view import the generation task under the name      *)
(* generate_certificate_task; tasks.py defines one generation task,        *)
(* generate_and_send_certificate_task, which is the task modelled.         *)
(* tasks.py imports DailyEmailLimit from .models; the class modelled is    *)
(* the one of models/daily_email_limit.py.                                 *)
(***************************************************************************)
EXTENDS Integers, Sequences, FiniteSets, Bags, TLC

\* ---------------------------------------------------------------- bounds
NumEst == 2            \* students (Estudiante rows) of the event
NumWorkers == 2        \* Celery tasks running at the same time
MaxSolicitudes == 3    \* requests made, a batch generation counting NumEst
MaxFallos == 1         \* external failures (template, converter, SMTP)
MaxIncrementos == 1    \* calls of EmailDailyLimit.increment_count
MaxLote == 10          \* certificates of a lot whose counters are recomputed
NumDir == 2            \* departments (Direccion rows)
MaxPlantillas == 3     \* PlantillaBase rows
MaxGuardando == 2      \* PlantillaBase.save() calls running at the same time
MaxTrozos == 4         \* pieces a paragraph is made of
MaxFilas == 3
MaxExceso == 2
MaxCuenta == 2
MaxFallosTarea == 6
NumDest == 2
MaxTitulos == 2
EMAIL_DAILY_LIMIT == 1 \* settings.EMAIL_DAILY_LIMIT (deployment setting)

\* ------------------------------------------------------ program constants
GEN_MAX_RETRIES == 3   \* @shared_task(max_retries=3) of the generation task
SEND_MAX_RETRIES == 5  \* @shared_task(max_retries=5) of the send task
FILAS_CABECERA == 20  \* the rows procesar_excel searches for the header
MAX_NOMBRE == 300      \* the longest name _validate_data accepts

VARIABLES
    certs,            \* Certificado table: sequence of rows, id = index
    lote,             \* ProcesamientoLote row of the event, or SinLote
    emails_enviados,  \* DailyEmailLimit.emails_enviados of today's row
    count,            \* EmailDailyLimit.count of today's row
    reloj,            \* timezone.now(), a logical clock
    cola,             \* broker: bag of task messages
    tareas,           \* bag of running generation / send tasks
    progreso,         \* bag of running update_batch_progress tasks
    peticiones,       \* bag of web requests in progress
    ultima,           \* the last initiate_sending_lote: outcome and gate
    presupuesto,      \* what the environment may still do
    entregas,         \* e-mails delivered today, by certificate id
    plantillas,       \* PlantillaBase table: sequence of rows, pk = index
    guardando,        \* bag of PlantillaBase.save() calls in progress
    entrada,          \* the arguments of the last call of a function
    salida            \* what that call returned or raised

bd == <<certs, lote, emails_enviados, count>>
celery == <<cola, tareas, progreso>>
\* what the certificate pipeline leaves alone
otros == <<plantillas, guardando, entrada, salida>>
vars == <<certs, lote, emails_enviados, count, reloj, cola, tareas,
          progreso, peticiones, ultima, presupuesto, entregas,
          plantillas, guardando, entrada, salida>>

Estudiantes == 1..NumEst
SinLote == [estado |-> "ninguno"]

\* ------------------------------------------------------------- helpers
Poner(b, m) == b (+) SetToBag({m})
Quitar(b, m) == b (-) SetToBag({m})
Max(a, b) == IF a >= b THEN a ELSE b

Msg(t, id, r) == [t |-> t, id |-> id, retries |-> r]
MsgUpdate == Msg("update", 0, 0)

Ocupados == BagCardinality(tareas) + BagCardinality(progreso)
HayWorker == Ocupados < NumWorkers

\* Certificado(evento=..., estudiante=e) with the field defaults
NuevoCertificado(e) ==
    [estudiante |-> e, estado |-> "pending", archivo_docx |-> FALSE,
     archivo_pdf |-> FALSE, enviado_email |-> FALSE, intentos_envio |-> 0,
     error_mensaje |-> ""]

\* Certificado.objects.filter(evento=evento, estudiante=e)
FilasDe(e) == {c \in DOMAIN certs : certs[c].estudiante = e}

Init ==
    /\ certs = <<>>
    /\ lote = SinLote
    /\ emails_enviados = 0
    /\ count = 0
    /\ reloj = 1
    /\ cola = EmptyBag
    /\ tareas = EmptyBag
    /\ progreso = EmptyBag
    /\ peticiones = EmptyBag
    /\ ultima = [res |-> "", restantes |-> 0, n |-> 0]
    /\ presupuesto = [solicitudes |-> MaxSolicitudes, fallos |-> MaxFallos,
                      incrementos |-> MaxIncrementos]
    /\ entregas = <<>>
    /\ plantillas = <<>>
    /\ guardando = EmptyBag
    /\ entrada = <<>>
    /\ salida = <<>>

\* ------------------------------------------------------- web requests
\* A request in progress: op is "lote" (initiate_generation_lote),
\* "individual" (action generate_individual) or "envio_lote"
\* (initiate_sending_lote); est is the student the loop is at.
Peticion(op, pc, e) == [op |-> op, pc |-> pc, est |-> e]
\* what the last initiate_sending_lote answered: res is "nada" (nothing to
\* send), "limite" (the ValueError of the gate) or "admitido"; restantes is
\* the allowance the gate compared with; n numbers the request
Respuesta(res, r, n) == [res |-> res, restantes |-> r, n |-> n]

\* after a student is handled: the next statement of the request, or its end
Continuar(p, resto) ==
    IF p.op = "lote"
    THEN peticiones' =
              Poner(resto, IF p.est < NumEst
                           THEN Peticion("lote", "get", p.est + 1)
                           ELSE Peticion("lote", "lote", p.est))
    ELSE peticiones' = resto

\* the reset of a row that get_or_create found
ResetLote(fila) ==
    IF fila.estado # "pending" THEN [fila EXCEPT !.estado = "pending"] ELSE fila
ResetIndividual(fila) ==
    [fila EXCEPT !.estado = "pending", !.error_mensaje = ""]

\* get_or_create, first half: the SELECT.  No row: the INSERT follows as a
\* separate statement.  One row: it is reset and its task enqueued.  Several
\* rows: MultipleObjectsReturned ends the request.
GetOrCreate_get(p, resto) ==
    LET F == FilasDe(p.est) IN
    IF F = {}
    THEN /\ peticiones' = Poner(resto, [p EXCEPT !.pc = "create"])
         /\ UNCHANGED <<certs, cola, entregas>>
    ELSE IF Cardinality(F) > 1
    THEN /\ peticiones' = resto
         /\ UNCHANGED <<certs, cola, entregas>>
    ELSE LET c == CHOOSE x \in F : TRUE IN
         /\ certs' = [certs EXCEPT ![c] = IF p.op = "lote" THEN ResetLote(@)
                                          ELSE ResetIndividual(@)]
         /\ cola' = Poner(cola, Msg("gen", c, 0))
         /\ Continuar(p, resto)
         /\ UNCHANGED entregas

\* get_or_create, second half: the INSERT (no unique constraint on
\* (evento, estudiante) can refuse it), then the task is enqueued
GetOrCreate_create(p, resto) ==
    /\ certs' = Append(certs, NuevoCertificado(p.est))
    /\ entregas' = Append(entregas, 0)
    /\ cola' = Poner(cola, Msg("gen", Len(certs) + 1, 0))
    /\ Continuar(p, resto)

\* initiate_generation_lote: the request arrives and handles its first student
initiate_generation_lote ==
    /\ presupuesto.solicitudes >= NumEst
    /\ presupuesto' = [presupuesto EXCEPT !.solicitudes = @ - NumEst]
    /\ GetOrCreate_get(Peticion("lote", "get", 1), peticiones)
    /\ UNCHANGED otros
    /\ UNCHANGED <<lote, emails_enviados, count, reloj, tareas, progreso,
                   ultima>>

\* action generate_individual of EventoDetailView.post
generate_individual(e) ==
    /\ presupuesto.solicitudes > 0
    /\ presupuesto' = [presupuesto EXCEPT !.solicitudes = @ - 1]
    /\ GetOrCreate_get(Peticion("individual", "get", e), peticiones)
    /\ UNCHANGED otros
    /\ UNCHANGED <<lote, emails_enviados, count, reloj, tareas, progreso,
                   ultima>>

\* a later statement of a generation request
PeticionGet(p) ==
    /\ p.pc = "get"
    /\ GetOrCreate_get(p, Quitar(peticiones, p))
    /\ UNCHANGED otros
    /\ UNCHANGED <<lote, emails_enviados, count, reloj, tareas, progreso,
                   ultima, presupuesto>>

PeticionCreate(p) ==
    /\ p.pc = "create"
    /\ GetOrCreate_create(p, Quitar(peticiones, p))
    /\ UNCHANGED otros
    /\ UNCHANGED <<lote, emails_enviados, count, reloj, tareas, progreso,
                   ultima, presupuesto>>

\* step 2 of initiate_generation_lote: the lot is created or reset, then set
\* to processing
LoteReiniciado ==
    [total_estudiantes |-> NumEst, procesados |-> 0, exitosos |-> 0,
     fallidos |-> 0, estado |-> "processing", fecha_fin |-> 0]

PeticionLote(p) ==
    /\ p.pc = "lote"
    /\ lote' = LoteReiniciado
    /\ peticiones' = Quitar(peticiones, p)
    /\ UNCHANGED otros
    /\ UNCHANGED <<certs, emails_enviados, count, reloj, celery, ultima,
                   presupuesto, entregas>>

\* ----------------------------------------------------- the batch gate
\* Certificado.objects.filter(evento=evento, estado='completed',
\* archivo_pdf__isnull=False): an empty FileField is stored as '', not NULL
Listos == {c \in DOMAIN certs : certs[c].estado = "completed"}

\* EmailDailyLimit.get_remaining_today
get_remaining_today == Max(0, EMAIL_DAILY_LIMIT - count)

\* a gate that admits any batch while some allowance is left
puede_enviar_lote_parcial(cantidad, restantes) == restantes > 0

\* EmailDailyLimit.puede_enviar_lote: the first component of its result
puede_enviar_lote(cantidad, restantes) == ~(cantidad > restantes)

\* initiate_sending_lote up to the gate: nothing to send, refused, or admitted
initiate_sending_lote ==
    /\ presupuesto.solicitudes > 0
    /\ presupuesto' = [presupuesto EXCEPT !.solicitudes = @ - 1]
    /\ LET num_a_enviar == Cardinality(Listos)
           restantes == get_remaining_today
       IN IF num_a_enviar = 0
          THEN /\ ultima' = Respuesta("nada", 0, presupuesto.solicitudes)
               /\ UNCHANGED peticiones
          ELSE IF puede_enviar_lote(num_a_enviar, restantes)
          THEN /\ ultima' = Respuesta("admitido", restantes,
                                        presupuesto.solicitudes)
               /\ peticiones' =
                    Poner(peticiones, Peticion("envio_lote", "encolar", 0))
          ELSE /\ ultima' = Respuesta("limite", restantes,
                                        presupuesto.solicitudes)
               /\ UNCHANGED peticiones
    /\ UNCHANGED otros
    /\ UNCHANGED <<bd, reloj, celery, entregas>>

\* initiate_sending_lote after the gate: the queryset is evaluated again, a
\* send task is enqueued per certificate and the lot is set to processing
PeticionEncolar(p) ==
    /\ p.pc = "encolar"
    /\ cola' = cola (+) SetToBag({Msg("send", c, 0) : c \in Listos})
    /\ lote' = IF lote = SinLote THEN lote
               ELSE [lote EXCEPT !.estado = "processing"]
    /\ peticiones' = Quitar(peticiones, p)
    /\ UNCHANGED otros
    /\ UNCHANGED <<certs, emails_enviados, count, reloj, tareas,
                   progreso, ultima, presupuesto, entregas>>

\* ------------------------------------------------------ admin actions
\* CertificadoAdmin.reintentar_generacion on one selected certificate
reintentar_generacion(c) ==
    /\ presupuesto.solicitudes > 0
    /\ certs[c].estado = "failed"
    /\ presupuesto' = [presupuesto EXCEPT !.solicitudes = @ - 1]
    /\ certs' = [certs EXCEPT ![c].estado = "pending",
                              ![c].error_mensaje = ""]
    /\ cola' = Poner(cola, Msg("gen", c, 0))
    /\ UNCHANGED otros
    /\ UNCHANGED <<lote, emails_enviados, count, reloj, tareas,
                   progreso, peticiones, ultima, entregas>>

\* CertificadoAdmin.reintentar_envio_email on one selected certificate
reintentar_envio_email(c) ==
    /\ presupuesto.solicitudes > 0
    /\ certs[c].estado \in {"completed", "failed"}
    /\ ~certs[c].enviado_email
    /\ certs[c].archivo_pdf
    /\ presupuesto' = [presupuesto EXCEPT !.solicitudes = @ - 1]
    /\ certs' = [certs EXCEPT ![c].estado = "completed"]
    /\ cola' = Poner(cola, Msg("send", c, 0))
    /\ UNCHANGED otros
    /\ UNCHANGED <<lote, emails_enviados, count, reloj, tareas,
                   progreso, peticiones, ultima, entregas>>

\* --------------------------------------------------------- environment
\* EmailDailyLimit.increment_count: UPDATE ... SET count = count + 1
increment_count ==
    /\ presupuesto.incrementos > 0
    /\ presupuesto' = [presupuesto EXCEPT !.incrementos = @ - 1]
    /\ count' = count + 1
    /\ UNCHANGED otros
    /\ UNCHANGED <<certs, lote, emails_enviados, reloj, celery,
                   peticiones, ultima, entregas>>

\* -------------------------------------------------------- Celery tasks
\* A running generation or send task: its message, where it is, its copy
\* of the Certificado row (loc) and, in incrementar_contador, the value of
\* emails_enviados it read (leido)
Tarea(m, pc, loc, leido) ==
    [t |-> m.t, id |-> m.id, retries |-> m.retries, pc |-> pc, loc |-> loc,
     leido |-> leido]

\* generate_and_send_certificate_task, lines 49-58: the row is loaded and
\* estado = 'generating' is saved with update_fields
GenInicio(m) ==
    /\ m.t = "gen"
    /\ HayWorker
    /\ cola' = Quitar(cola, m)
    /\ certs' = [certs EXCEPT ![m.id].estado = "generating"]
    /\ tareas' = Poner(tareas, Tarea(m, "generar",
                         [certs[m.id] EXCEPT !.estado = "generating"], 0))
    /\ UNCHANGED otros
    /\ UNCHANGED <<lote, emails_enviados, count, reloj, progreso,
                   peticiones, ultima, presupuesto, entregas>>

\* lines 60-105: template, DOCX, PDF and storage succeed; the copy is saved
\* whole, then the send task and the progress task are enqueued
GenExito(i) ==
    /\ i.t = "gen"
    /\ certs' = [certs EXCEPT ![i.id] =
                   [i.loc EXCEPT !.archivo_docx = TRUE, !.archivo_pdf = TRUE,
                                 !.estado = "completed", !.error_mensaje = ""]]
    /\ cola' = Poner(Poner(cola, Msg("send", i.id, 0)), MsgUpdate)
    /\ tareas' = Quitar(tareas, i)
    /\ UNCHANGED otros
    /\ UNCHANGED <<lote, emails_enviados, count, reloj, progreso,
                   peticiones, ultima, presupuesto, entregas>>

\* self.retry of a task with max_retries: a new message while retries are
\* left, the exception otherwise
Reintento(b, i, max_retries) ==
    IF i.retries < max_retries
    THEN Poner(b, Msg(i.t, i.id, i.retries + 1))
    ELSE b

\* lines 122-143: an exception of the template, the converter or the storage;
\* recuperable says that its text holds 'timeout' or 'temporary'
GenFallo(i, recuperable) ==
    /\ i.t = "gen"
    /\ presupuesto.fallos > 0
    /\ presupuesto' = [presupuesto EXCEPT !.fallos = @ - 1]
    /\ certs' = [certs EXCEPT ![i.id] =
                   [i.loc EXCEPT !.estado = "failed",
                                 !.error_mensaje = "generacion"]]
    /\ cola' = IF recuperable
               THEN Reintento(Poner(cola, MsgUpdate), i, GEN_MAX_RETRIES)
               ELSE Poner(cola, MsgUpdate)
    /\ tareas' = Quitar(tareas, i)
    /\ UNCHANGED otros
    /\ UNCHANGED <<lote, emails_enviados, count, reloj, progreso,
                   peticiones, ultima, entregas>>

\* send_certificate_email_task, lines 242-265: the except branch, with the
\* task's copy of the row and the broker it leaves behind
EnvioExcepcion(i, b) ==
    LET loc == [i.loc EXCEPT !.intentos_envio = @ + 1,
                             !.error_mensaje = "envio"]
    IN IF i.retries < SEND_MAX_RETRIES
       THEN /\ certs' = [certs EXCEPT ![i.id] = loc]
            /\ cola' = Reintento(b, i, SEND_MAX_RETRIES)
       ELSE /\ certs' = [certs EXCEPT ![i.id] = [loc EXCEPT !.estado = "failed"]]
            /\ cola' = Poner(b, MsgUpdate)

\* lines 165-179: the row is loaded; without a PDF the task raises, with one
\* estado = 'sending_email' is saved with update_fields
EnvioInicio(m) ==
    /\ m.t = "send"
    /\ HayWorker
    /\ IF ~certs[m.id].archivo_pdf
       THEN /\ EnvioExcepcion(Tarea(m, "enviar", certs[m.id], 0),
                              Quitar(cola, m))
            /\ UNCHANGED tareas
       ELSE /\ cola' = Quitar(cola, m)
            /\ certs' = [certs EXCEPT ![m.id].estado = "sending_email"]
            /\ tareas' = Poner(tareas, Tarea(m, "enviar",
                            [certs[m.id] EXCEPT !.estado = "sending_email"],
                            0))
    /\ UNCHANGED otros
    /\ UNCHANGED <<lote, emails_enviados, count, reloj, progreso,
                   peticiones, ultima, presupuesto, entregas>>

\* lines 181-222 and DailyEmailLimit.incrementar_contador lines 85-89: the
\* message is sent, then today's counter row is read
EnvioEntrega(i) ==
    /\ i.t = "send"
    /\ i.pc = "enviar"
    /\ entregas' = [entregas EXCEPT ![i.id] = @ + 1]
    /\ tareas' = Poner(Quitar(tareas, i),
                       [i EXCEPT !.pc = "contar", !.leido = emails_enviados])
    /\ UNCHANGED otros
    /\ UNCHANGED <<bd, reloj, cola, progreso, peticiones, ultima,
                   presupuesto>>

\* the PDF is missing on disk or email.send raises
EnvioFallo(i) ==
    /\ i.t = "send"
    /\ i.pc = "enviar"
    /\ presupuesto.fallos > 0
    /\ presupuesto' = [presupuesto EXCEPT !.fallos = @ - 1]
    /\ EnvioExcepcion(i, cola)
    /\ tareas' = Quitar(tareas, i)
    /\ UNCHANGED otros
    /\ UNCHANGED <<lote, emails_enviados, count, reloj, progreso,
                   peticiones, ultima, entregas>>

\* incrementar_contador lines 91-92, then tasks.py lines 224-234: the counter
\* row read is saved with one more, the copy is saved whole as sent and the
\* progress task is enqueued
EnvioFin(i) ==
    /\ i.t = "send"
    /\ i.pc = "contar"
    /\ emails_enviados' = i.leido + 1
    /\ certs' = [certs EXCEPT ![i.id] =
                   [i.loc EXCEPT !.estado = "sent", !.enviado_email = TRUE,
                                 !.intentos_envio = @ + 1]]
    /\ cola' = Poner(cola, MsgUpdate)
    /\ tareas' = Quitar(tareas, i)
    /\ UNCHANGED otros
    /\ UNCHANGED <<lote, count, reloj, progreso, peticiones, ultima,
                   presupuesto, entregas>>

\* ------------------------------------------------------ batch progress
\* the aggregate of ProcesamientoLote.actualizar_contadores, lines 623-627
Completados == Cardinality({c \in DOMAIN certs :
                               certs[c].estado \in {"completed", "sent"}})
Fallidos == Cardinality({c \in DOMAIN certs : certs[c].estado = "failed"})

\* a derivation that closes the lot one certificate late
EstadoLote_tardio(total, exitosos, fallidos) ==
    IF exitosos + fallidos = 0 THEN "pending"
    ELSE IF exitosos + fallidos <= total THEN "processing"
    ELSE IF fallidos = 0 THEN "completed"
    ELSE IF exitosos = 0 THEN "failed"
    ELSE "partial"

\* lines 634-649: the derived state of the lot
EstadoLote(total, exitosos, fallidos) ==
    IF exitosos + fallidos = 0 THEN "pending"
    ELSE IF exitosos + fallidos < total THEN "processing"
    ELSE IF fallidos = 0 THEN "completed"
    ELSE IF exitosos = 0 THEN "failed"
    ELSE "partial"

Terminal == {"completed", "failed", "partial"}

\* ProcesamientoLote.actualizar_contadores on the copy l, up to its save
actualizar_contadores(l, completados, fallidos, ahora) ==
    LET e == EstadoLote(l.total_estudiantes, completados, fallidos) IN
    [l EXCEPT !.procesados = completados + fallidos,
              !.exitosos = completados,
              !.fallidos = fallidos,
              !.estado = e,
              !.fecha_fin = IF e \in Terminal /\ l.fecha_fin = 0
                            THEN ahora ELSE l.fecha_fin]

\* update_batch_progress_task: the lot is loaded (DoesNotExist ends the
\* task), the certificates are counted and the copy recomputed
ActInicio(m) ==
    /\ m.t = "update"
    /\ HayWorker
    /\ cola' = Quitar(cola, m)
    /\ IF lote = SinLote
       THEN UNCHANGED <<progreso, reloj>>
       ELSE LET l == actualizar_contadores(lote, Completados, Fallidos, reloj)
            IN /\ progreso' = Poner(progreso, l)
               /\ reloj' = IF l.fecha_fin = lote.fecha_fin THEN reloj
                           ELSE reloj + 1
    /\ UNCHANGED otros
    /\ UNCHANGED <<bd, tareas, peticiones, ultima, presupuesto, entregas>>

\* self.save() of actualizar_contadores: every column of the copy
ActGuardar(l) ==
    /\ lote' = l
    /\ progreso' = Quitar(progreso, l)
    /\ UNCHANGED otros
    /\ UNCHANGED <<certs, emails_enviados, count, reloj, cola, tareas,
                   peticiones, ultima, presupuesto, entregas>>

\* ------------------------------------------------------ specifications
\* the requests' later statements
Web ==
    \/ \E p \in BagToSet(peticiones) : PeticionGet(p)
    \/ \E p \in BagToSet(peticiones) : PeticionCreate(p)
    \/ \E p \in BagToSet(peticiones) : PeticionLote(p)
    \/ \E p \in BagToSet(peticiones) : PeticionEncolar(p)

\* the workers, every external operation succeeding
Workers ==
    \/ \E m \in BagToSet(cola) : GenInicio(m)
    \/ \E i \in BagToSet(tareas) : GenExito(i)
    \/ \E m \in BagToSet(cola) : EnvioInicio(m)
    \/ \E i \in BagToSet(tareas) : EnvioEntrega(i)
    \/ \E i \in BagToSet(tareas) : EnvioFin(i)
    \/ \E m \in BagToSet(cola) : ActInicio(m)
    \/ \E l \in BagToSet(progreso) : ActGuardar(l)

\* The pipeline: every request of the event page and of the admin, the
\* workers, and external failures.
Next ==
    \/ initiate_generation_lote
    \/ \E e \in Estudiantes : generate_individual(e)
    \/ initiate_sending_lote
    \/ \E c \in DOMAIN certs : reintentar_generacion(c)
    \/ \E c \in DOMAIN certs : reintentar_envio_email(c)
    \/ Web
    \/ Workers
    \/ \E i \in BagToSet(tareas), r \in BOOLEAN : GenFallo(i, r)
    \/ \E i \in BagToSet(tareas) : EnvioFallo(i)

Spec == Init /\ [][Next]_vars

\* The quota: batch generation and batch sending while other senders count
\* their e-mails with EmailDailyLimit.increment_count; nothing fails.
NextCuota ==
    \/ initiate_generation_lote
    \/ initiate_sending_lote
    \/ increment_count
    \/ Web
    \/ Workers

SpecCuota == Init /\ [][NextCuota]_vars

\* The recomputation alone: update_batch_progress_task run once on a lot of
\* any size over certificates in any states.
FilasEn(a, b, c, d, e) ==
    [k \in 1..(a + b + c + d + e) |->
        [NuevoCertificado(k) EXCEPT
            !.estado = IF k <= a THEN "completed"
                       ELSE IF k <= a + b THEN "sent"
                       ELSE IF k <= a + b + c THEN "failed"
                       ELSE IF k <= a + b + c + d THEN "pending"
                       ELSE "sending_email"]]

InitLote ==
    /\ \E a, b, c, d, e \in 0..MaxLote :
          /\ a + b + c + d + e <= MaxLote
          /\ certs = FilasEn(a, b, c, d, e)
          /\ entregas = [k \in 1..(a + b + c + d + e) |-> 0]
    /\ \E total \in 1..MaxLote, fin \in 0..1 :
          lote = [LoteReiniciado EXCEPT !.total_estudiantes = total,
                                        !.fecha_fin = fin]
    /\ emails_enviados = 0
    /\ count = 0
    /\ reloj = 2
    /\ cola = SetToBag({MsgUpdate})
    /\ tareas = EmptyBag
    /\ progreso = EmptyBag
    /\ peticiones = EmptyBag
    /\ ultima = [res |-> "", restantes |-> 0, n |-> 0]
    /\ presupuesto = [solicitudes |-> 0, fallos |-> 0, incrementos |-> 0]
    /\ plantillas = <<>>
    /\ guardando = EmptyBag
    /\ entrada = <<>>
    /\ salida = <<>>

NextLote ==
    \/ \E m \in BagToSet(cola) : ActInicio(m)
    \/ \E l \in BagToSet(progreso) : ActGuardar(l)

SpecLote == InitLote /\ [][NextLote]_vars

\* The tasks of one batch: the state a batch generation request leaves when
\* it ran alone (a pending certificate and a generation task per student, the
\* lot reset and processing), then the workers and up to MaxFallosTarea
\* external failures, with no further request.
InitTareas ==
    /\ certs = [e \in Estudiantes |-> NuevoCertificado(e)]
    /\ lote = LoteReiniciado
    /\ emails_enviados = 0
    /\ count = 0
    /\ reloj = 1
    /\ cola = SetToBag({Msg("gen", c, 0) : c \in Estudiantes})
    /\ tareas = EmptyBag
    /\ progreso = EmptyBag
    /\ peticiones = EmptyBag
    /\ ultima = [res |-> "", restantes |-> 0, n |-> 0]
    /\ presupuesto = [solicitudes |-> 0, fallos |-> MaxFallosTarea,
                      incrementos |-> 0]
    /\ entregas = [e \in Estudiantes |-> 0]
    /\ plantillas = <<>>
    /\ guardando = EmptyBag
    /\ entrada = <<>>
    /\ salida = <<>>

NextTareas ==
    \/ Workers
    \/ \E i \in BagToSet(tareas), r \in BOOLEAN : GenFallo(i, r)
    \/ \E i \in BagToSet(tareas) : EnvioFallo(i)

SpecTareas == InitTareas /\ [][NextTareas]_vars

\* ------------------------------------------------------ campaign send
\* EmailCampaignService.send_campaign, one turn of its loop: the first
\* pending recipient of the campaign (entrada holds the status of each
\* EmailRecipient) is e-mailed and saved as sent, or the send raises and it
\* is saved as failed
Pendientes == {r \in DOMAIN entrada : entrada[r] = "pending"}
send_campaign(enviado) ==
    /\ Pendientes # {}
    /\ LET recipient == CHOOSE r \in Pendientes : \A q \in Pendientes : r <= q
       IN entrada' = [entrada EXCEPT ![recipient] =
                         IF enviado THEN "sent" ELSE "failed"]
    /\ UNCHANGED <<bd, reloj, celery, peticiones, ultima, presupuesto,
                   entregas, plantillas, guardando, salida>>

\* The e-mails of a day: the tasks of one batch, with at most MaxFallos
\* failures, and a campaign of NumDest recipients being sent.
InitCorreos ==
    /\ certs = [e \in Estudiantes |-> NuevoCertificado(e)]
    /\ lote = LoteReiniciado
    /\ emails_enviados = 0
    /\ count = 0
    /\ reloj = 1
    /\ cola = SetToBag({Msg("gen", c, 0) : c \in Estudiantes})
    /\ tareas = EmptyBag
    /\ progreso = EmptyBag
    /\ peticiones = EmptyBag
    /\ ultima = [res |-> "", restantes |-> 0, n |-> 0]
    /\ presupuesto = [solicitudes |-> 0, fallos |-> MaxFallos,
                      incrementos |-> 0]
    /\ entregas = [e \in Estudiantes |-> 0]
    /\ plantillas = <<>>
    /\ guardando = EmptyBag
    /\ entrada = [r \in 1..NumDest |-> "pending"]
    /\ salida = <<>>

NextCorreos ==
    \/ NextTareas
    \/ \E enviado \in BOOLEAN : send_campaign(enviado)

SpecCorreos == InitCorreos /\ [][NextCorreos]_vars

\* ------------------------------------------------------ base templates
\* The PlantillaBase table under its write paths: the create and update
\* views, the admin actions activar_plantilla and desactivar_plantilla.  A
\* save() is two statements, the UPDATE of the siblings and super().save().
Direcciones == 1..NumDir

NuevaPlantilla(d, activa, archivo) ==
    [direccion |-> d, es_activa |-> activa, archivo |-> archivo]

\* PlantillaBase.objects.filter(direccion=d, es_activa=True)
Activas(tabla, d) ==
    {p \in DOMAIN tabla : tabla[p].direccion = d /\ tabla[p].es_activa}

\* a table without the constraint: every write is accepted
sin_restriccion(tabla, pk, copia) == TRUE

\* UniqueConstraint(fields=['direccion'], condition=Q(es_activa=True)): the
\* table accepts the row copia written at pk (0: a new row)
unique_active_plantilla_per_direccion(tabla, pk, copia) ==
    copia.es_activa => Activas(tabla, copia.direccion) \ {pk} = {}

PlantillasEnCurso ==
    Len(plantillas)
      + Cardinality({g \in BagToSet(guardando) : g.pk = 0})

\* PlantillaBase.save, lines 201-206: an active copy deactivates the other
\* active rows of its direccion
save_desactivar(pk, copia) ==
    /\ BagCardinality(guardando) < MaxGuardando
    /\ [pk |-> pk, copia |-> copia] \notin BagToSet(guardando)
    /\ plantillas' =
          IF copia.es_activa
          THEN [p \in DOMAIN plantillas |->
                  IF p \in Activas(plantillas, copia.direccion) \ {pk}
                  THEN [plantillas[p] EXCEPT !.es_activa = FALSE]
                  ELSE plantillas[p]]
          ELSE plantillas
    /\ guardando' = Poner(guardando, [pk |-> pk, copia |-> copia])
    /\ UNCHANGED <<bd, reloj, celery, peticiones, ultima, presupuesto,
                   entregas, entrada, salida>>

\* PlantillaCreateView.form_valid: form.save() of a new row
PlantillaCreateView(d, activa) ==
    /\ PlantillasEnCurso < MaxPlantillas
    /\ save_desactivar(0, NuevaPlantilla(d, activa, TRUE))

\* PlantillaUpdateView.form_valid: form.save() of the row loaded
PlantillaUpdateView(pk, d, activa) ==
    save_desactivar(pk, [plantillas[pk] EXCEPT !.direccion = d,
                                               !.es_activa = activa])

\* PlantillaBaseAdmin.activar_plantilla on one selected row
activar_plantilla(pk) ==
    save_desactivar(pk, [plantillas[pk] EXCEPT !.es_activa = TRUE])

\* PlantillaBaseAdmin.desactivar_plantilla: queryset.update(es_activa=False)
desactivar_plantilla(pk) ==
    /\ plantillas[pk].es_activa
    /\ plantillas' = [plantillas EXCEPT ![pk].es_activa = FALSE]
    /\ UNCHANGED <<bd, reloj, celery, peticiones, ultima, presupuesto,
                   entregas, guardando, entrada, salida>>

\* PlantillaBase.save, line 207: super().save() writes the copy, or the
\* table refuses it with IntegrityError
save_super(g) ==
    /\ guardando' = Quitar(guardando, g)
    /\ IF unique_active_plantilla_per_direccion(plantillas, g.pk, g.copia)
       THEN /\ plantillas' = IF g.pk = 0 THEN Append(plantillas, g.copia)
                             ELSE [plantillas EXCEPT ![g.pk] = g.copia]
            /\ salida' = <<"guardado">>
       ELSE /\ salida' = <<"IntegrityError">>
            /\ UNCHANGED plantillas
    /\ UNCHANGED <<bd, reloj, celery, peticiones, ultima, presupuesto,
                   entregas, entrada>>

NextPlantilla ==
    \/ \E d \in Direcciones, a \in BOOLEAN : PlantillaCreateView(d, a)
    \/ \E pk \in DOMAIN plantillas, d \in Direcciones, a \in BOOLEAN :
          PlantillaUpdateView(pk, d, a)
    \/ \E pk \in DOMAIN plantillas : activar_plantilla(pk)
    \/ \E pk \in DOMAIN plantillas : desactivar_plantilla(pk)
    \/ \E g \in BagToSet(guardando) : save_super(g)

SpecPlantilla == Init /\ [][NextPlantilla]_vars

\* --------------------------------------------------- template selector
\* TemplateSelector.get_template_for_event on an event and a table of base
\* templates; the answer names what was resolved: the variant's file, the
\* file of base template pk, or TemplateNotFoundError and the department
\* its message names (0: none).
Resuelto(res, pk, d) == [res |-> res, pk |-> pk, direccion |-> d]

\* Evento.plantilla_seleccionada: no variant, or one with activo and archivo
Variantes ==
    {v \in [existe : BOOLEAN, activo : BOOLEAN, archivo : BOOLEAN] :
        ~v.existe => (~v.activo /\ ~v.archivo)}

Eventos == [direccion : Direcciones, plantilla_seleccionada : Variantes]

\* a resolution that does not look at the variant's activo flag
get_template_sin_activo(evento, tabla) ==
    LET v == evento.plantilla_seleccionada
        A == Activas(tabla, evento.direccion)
    IN IF v.existe /\ v.archivo THEN Resuelto("variante", 0, 0)
       ELSE IF A = {} THEN Resuelto("TemplateNotFoundError", 0, evento.direccion)
       ELSE Resuelto("base", CHOOSE p \in A : TRUE, 0)

\* lines 55-96: the variant when it is active and has a file; else
\* PlantillaBase.objects.get(direccion=..., es_activa=True), whose
\* DoesNotExist and whose missing file name the department, and whose
\* MultipleObjectsReturned is wrapped in a message that does not
get_template_for_event(evento, tabla) ==
    LET v == evento.plantilla_seleccionada
        A == Activas(tabla, evento.direccion)
    IN IF v.existe /\ v.activo /\ v.archivo THEN Resuelto("variante", 0, 0)
       ELSE IF A = {} THEN Resuelto("TemplateNotFoundError", 0, evento.direccion)
       ELSE IF Cardinality(A) > 1 THEN Resuelto("TemplateNotFoundError", 0, 0)
       ELSE LET p == CHOOSE x \in A : TRUE
            IN IF ~tabla[p].archivo
               THEN Resuelto("TemplateNotFoundError", 0, evento.direccion)
               ELSE Resuelto("base", p, 0)

\* the tables the write paths of PlantillaBase can leave
TablasPlantilla ==
    UNION {{t \in [1..n -> [direccion : Direcciones, es_activa : BOOLEAN,
                             archivo : BOOLEAN]] :
               \A p \in 1..n :
                   unique_active_plantilla_per_direccion(t, p, t[p])}
           : n \in 0..MaxPlantillas}

\* every variable but the inputs and the answer, as Init leaves them
Reposo ==
    /\ certs = <<>>
    /\ lote = SinLote
    /\ emails_enviados = 0
    /\ count = 0
    /\ reloj = 1
    /\ cola = EmptyBag
    /\ tareas = EmptyBag
    /\ progreso = EmptyBag
    /\ peticiones = EmptyBag
    /\ ultima = [res |-> "", restantes |-> 0, n |-> 0]
    /\ presupuesto = [solicitudes |-> 0, fallos |-> 0, incrementos |-> 0]
    /\ entregas = <<>>
    /\ guardando = EmptyBag

InitSelector ==
    /\ Reposo
    /\ plantillas \in TablasPlantilla
    /\ entrada \in {<<ev>> : ev \in Eventos}
    /\ salida = <<>>

NextSelector ==
    /\ salida = <<>>
    /\ salida' = <<get_template_for_event(entrada[1], plantillas)>>
    /\ UNCHANGED <<bd, reloj, celery, peticiones, ultima, presupuesto,
                   entregas, plantillas, guardando, entrada>>

SpecSelector == InitSelector /\ [][NextSelector]_vars

\* --------------------------------------------------- variable replacer
\* A text is a sequence of characters.  VARIABLE_PATTERN is
\* \{\{([A-Z_ ]+)\}\}: two braces, a name of letters, two braces.
LetrasDeNombre == {"A", "B", "_", " "}
Abre == <<"{", "{">>
Cierra == <<"}", "}">>

\* text[i:].startswith(p)
EmpiezaEn(t, i, p) ==
    /\ i + Len(p) - 1 <= Len(t)
    /\ SubSeq(t, i, i + Len(p) - 1) = p

\* the end of the longest run of name letters from j on
RECURSIVE FinDeNombre(_, _)
FinDeNombre(t, j) ==
    IF j <= Len(t) /\ t[j] \in LetrasDeNombre THEN FinDeNombre(t, j + 1) ELSE j

\* where the match of VARIABLE_PATTERN at i ends, or 0 when there is none
FinDeVariable(t, i) ==
    IF ~EmpiezaEn(t, i, Abre) THEN 0
    ELSE LET j == FinDeNombre(t, i + 2)
         IN IF j > i + 2 /\ EmpiezaEn(t, j, Cierra) THEN j + 1 ELSE 0

\* VARIABLE_PATTERN.findall(text) from i on: the names, in order
RECURSIVE findall(_, _)
findall(t, i) ==
    IF i > Len(t) THEN <<>>
    ELSE LET f == FinDeVariable(t, i)
         IN IF f = 0 THEN findall(t, i + 1)
            ELSE <<SubSeq(t, i + 2, f - 2)>> \o findall(t, f + 1)

\* str.replace(old, new) from i on: every occurrence, left to right
RECURSIVE replace(_, _, _, _)
replace(t, i, old, new) ==
    IF i > Len(t) THEN <<>>
    ELSE IF EmpiezaEn(t, i, old)
    THEN new \o replace(t, i + Len(old), old, new)
    ELSE <<t[i]>> \o replace(t, i + 1, old, new)

placeholder(var_name) == Abre \o var_name \o Cierra

\* lines 117-128: the loop over variables_found from the k-th name on
RECURSIVE ReemplazarCadaUna(_, _, _, _)
ReemplazarCadaUna(new_text, variables_found, k, variables) ==
    IF k > Len(variables_found) THEN new_text
    ELSE LET var_name == variables_found[k]
         IN ReemplazarCadaUna(
                IF var_name \in DOMAIN variables
                THEN replace(new_text, 1, placeholder(var_name),
                             variables[var_name])
                ELSE new_text,
                variables_found, k + 1, variables)

\* a replacer that stops after the first variable found
replace_solo_la_primera(full_text, variables) ==
    LET variables_found == findall(full_text, 1)
    IN IF variables_found = <<>> THEN full_text
       ELSE ReemplazarCadaUna(full_text, <<variables_found[1]>>, 1, variables)

\* VariableReplacer._replace_in_paragraph: the paragraph's new text
replace_in_paragraph(full_text, variables) ==
    LET variables_found == findall(full_text, 1)
    IN IF variables_found = <<>> THEN full_text
       ELSE ReemplazarCadaUna(full_text, variables_found, 1, variables)

\* paragraphs: up to MaxTrozos pieces, each a placeholder, a stray brace or
\* brace pair, an unclosed placeholder or a plain character
Trozos ==
    {placeholder(<<"A">>), placeholder(<<"B">>), Abre \o <<"A">>, Cierra,
     <<"{">>, <<"x">>}

RECURSIVE Unir(_)
Unir(ts) == IF ts = <<>> THEN <<>> ELSE Head(ts) \o Unir(Tail(ts))

Parrafos == {Unir(ts) : ts \in UNION {[1..n -> Trozos] : n \in 0..MaxTrozos}}

\* the values a variable may have: empty, plain, or holding a placeholder
Valores == {<<>>, <<"x">>, placeholder(<<"A">>), placeholder(<<"B">>)}

Mapas ==
    UNION {[K -> Valores] : K \in SUBSET {<<"A">>, <<"B">>}}

InitReplacer ==
    /\ Reposo
    /\ plantillas = <<>>
    /\ entrada \in Parrafos \X Mapas
    /\ salida = <<>>

NextReplacer ==
    /\ salida = <<>>
    /\ salida' = <<replace_in_paragraph(entrada[1], entrada[2])>>
    /\ UNCHANGED <<bd, reloj, celery, peticiones, ultima, presupuesto,
                   entregas, plantillas, guardando, entrada>>

SpecReplacer == InitReplacer /\ [][NextReplacer]_vars

\* -------------------------------------------------------- roster parser
\* ExcelParser on a sheet: a sequence of rows, each a sequence of cells, each
\* cell a text (<<>> for an empty cell).
NOMBRES_HEADERS ==
    <<<<"N", "O", "M", "B", "R", "E", "S", " ", "C", "O", "M", "P", "L", "E", "T", "O", "S">>,
      <<"N", "O", "M", "B", "R", "E", " ", "C", "O", "M", "P", "L", "E", "T", "O">>,
      <<"N", "O", "M", "B", "R", "E", "S">>,
      <<"N", "O", "M", "B", "R", "E">>,
      <<"E", "S", "T", "U", "D", "I", "A", "N", "T", "E">>,
      <<"E", "S", "T", "U", "D", "I", "A", "N", "T", "E", "S">>,
      <<"P", "A", "R", "T", "I", "C", "I", "P", "A", "N", "T", "E">>,
      <<"P", "A", "R", "T", "I", "C", "I", "P", "A", "N", "T", "E", "S">>>>

CORREO_HEADERS ==
    <<<<"C", "O", "R", "R", "E", "O", " ", "E", "L", "E", "C", "T", "R", "O", "N", "I", "C", "O">>,
      <<"C", "O", "R", "R", "E", "O", " ", "E", "L", "E", "C", "T", "R", "Ó", "N", "I", "C", "O">>,
      <<"C", "O", "R", "R", "E", "O", "S", " ", "E", "L", "E", "C", "T", "R", "O", "N", "I", "C", "O", "S">>,
      <<"C", "O", "R", "R", "E", "O", "S", " ", "E", "L", "E", "C", "T", "R", "Ó", "N", "I", "C", "O", "S">>,
      <<"C", "O", "R", "R", "E", "O">>,
      <<"C", "O", "R", "R", "E", "O", "S">>,
      <<"E", "M", "A", "I", "L">>,
      <<"E", "M", "A", "I", "L", "S">>,
      <<"E", "-", "M", "A", "I", "L">>,
      <<"E", "-", "M", "A", "I", "L", "S">>,
      <<"M", "A", "I", "L">>,
      <<"M", "A", "I", "L", "S">>>>

\* unicodedata.normalize('NFD', ...) without the combining marks
SinTilde ==
    ("á" :> "a" @@ "é" :> "e" @@ "í" :> "i" @@ "ó" :> "o" @@ "ú" :> "u"
     @@ "ñ" :> "n" @@ "Á" :> "A" @@ "É" :> "E" @@ "Í" :> "I" @@ "Ó" :>
     "O" @@ "Ú" :> "U" @@ "Ñ" :> "N")

\* str.upper
Mayuscula ==
    ("a" :> "A" @@ "b" :> "B" @@ "c" :> "C" @@ "d" :> "D" @@ "e" :> "E"
     @@ "f" :> "F" @@ "g" :> "G" @@ "h" :> "H" @@ "i" :> "I" @@ "j" :>
     "J" @@ "k" :> "K" @@ "l" :> "L" @@ "m" :> "M" @@ "n" :> "N" @@ "o"
     :> "O" @@ "p" :> "P" @@ "q" :> "Q" @@ "r" :> "R" @@ "s" :> "S" @@
     "t" :> "T" @@ "u" :> "U" @@ "v" :> "V" @@ "w" :> "W" @@ "x" :> "X"
     @@ "y" :> "Y" @@ "z" :> "Z")

\* str.strip: the text without the blanks at its ends
RECURSIVE strip(_)
strip(t) ==
    IF t = <<>> THEN t
    ELSE IF Head(t) = " " THEN strip(Tail(t))
    ELSE IF t[Len(t)] = " " THEN strip(SubSeq(t, 1, Len(t) - 1))
    ELSE t

\* ' '.join(text.split()) on a stripped text: runs of blanks become one
RECURSIVE UnirPalabras(_)
UnirPalabras(t) ==
    IF Len(t) < 2 THEN t
    ELSE IF t[1] = " " /\ t[2] = " " THEN UnirPalabras(Tail(t))
    ELSE <<t[1]>> \o UnirPalabras(Tail(t))

\* ExcelParser.normalize_text
normalize_text(text) ==
    LET sin == [k \in 1..Len(text) |->
                  IF text[k] \in DOMAIN SinTilde THEN SinTilde[text[k]]
                  ELSE text[k]]
        may == [k \in 1..Len(sin) |->
                  IF sin[k] \in DOMAIN Mayuscula THEN Mayuscula[sin[k]]
                  ELSE sin[k]]
    IN UnirPalabras(strip(may))

\* Python's "a in b" on texts
Contiene(a, b) ==
    \E i \in 1..(Len(b) - Len(a) + 1) : SubSeq(b, i, i + Len(a) - 1) = a

\* lines 152 and 161: the header matches one of the options
CoincideCon(norm_header, opciones) ==
    \E k \in 1..Len(opciones) :
        \/ Contiene(normalize_text(opciones[k]), norm_header)
        \/ Contiene(norm_header, normalize_text(opciones[k]))

\* str(cell.value).strip() if cell.value else ''
Leer(celda) == strip(celda)

\* lines 150-165: the index of the first header that matches, 0 for None
PrimeraColumna(fila, opciones) ==
    LET C == {k \in 1..Len(fila) :
                 CoincideCon(normalize_text(Leer(fila[k])), opciones)}
    IN IF C = {} THEN 0 ELSE CHOOSE k \in C : \A j \in C : k <= j

Letras == DOMAIN Mayuscula \cup {Mayuscula[c] : c \in DOMAIN Mayuscula}
Digitos == {"0", "1", "2", "3", "4", "5", "6", "7", "8", "9"}
AlfaNum == Letras \cup Digitos

\* a comparison of e-mails that tells upper from lower case
str_sin_cambio(t) == t

\* str.lower
str_lower(t) ==
    [k \in 1..Len(t) |->
        IF \E c \in DOMAIN Mayuscula : Mayuscula[c] = t[k]
        THEN CHOOSE c \in DOMAIN Mayuscula : Mayuscula[c] = t[k]
        ELSE t[k]]

\* email_regex.match, line 244:
\* ^[a-zA-Z0-9][a-zA-Z0-9._-]*@[a-zA-Z0-9][a-zA-Z0-9.-]+\.[a-zA-Z]{2,}$
\* with the @ at a and the last point at p
email_regex(c) ==
    \E a \in 2..Len(c), p \in 1..Len(c) :
        /\ c[a] = "@"
        /\ c[p] = "."
        /\ c[1] \in AlfaNum
        /\ \A k \in 2..(a - 1) : c[k] \in AlfaNum \cup {".", "_", "-"}
        /\ a + 1 <= Len(c)
        /\ c[a + 1] \in AlfaNum
        /\ p >= a + 3
        /\ \A k \in (a + 2)..(p - 1) : c[k] \in AlfaNum \cup {".", "-"}
        /\ Len(c) - p >= 2
        /\ \A k \in (p + 1)..Len(c) : c[k] \in Letras

\* line 269: the characters outside the allowed set
caracteres_invalidos(c) ==
    {c[k] : k \in 1..Len(c)} \ (AlfaNum \cup {"@", ".", "_", "-"})

\* correo.split('@')[0]
local_part(c) ==
    LET A == {k \in 1..Len(c) : c[k] = "@"}
    IN IF A = {} THEN c
       ELSE SubSeq(c, 1, (CHOOSE k \in A : \A j \in A : k <= j) - 1)

\* line 279
EmpiezaOTermina(l) ==
    /\ l # <<>>
    /\ l[1] \in {".", "-"} \/ l[Len(l)] \in {".", "-"}

\* lines 185-219: the rows from the k-th on with both cells filled
RECURSIVE extract_data(_, _, _, _)
extract_data(hoja, k, nombres_col_index, correo_col_index) ==
    IF k > Len(hoja) THEN <<>>
    ELSE LET nombres == Leer(hoja[k][nombres_col_index])
             correo == Leer(hoja[k][correo_col_index])
             resto == extract_data(hoja, k + 1, nombres_col_index,
                                   correo_col_index)
         IN IF nombres = <<>> \/ correo = <<>> THEN resto
            ELSE <<[nombres_completos |-> nombres,
                    correo_electronico |-> correo,
                    row_number |-> k]>> \o resto

Falta(fila, razon) == [fila |-> fila, razon |-> razon]

\* lines 246-293: the errors of the students from the k-th on, given the
\* e-mails seen so far; after an error of the e-mail the row is left
RECURSIVE validate_data(_, _, _)
validate_data(estudiantes, k, correos_vistos) ==
    IF k > Len(estudiantes) THEN <<>>
    ELSE LET row_num == estudiantes[k].row_number
             nombres == estudiantes[k].nombres_completos
             correo_stripped == strip(estudiantes[k].correo_electronico)
             correo_lower == str_lower(correo_stripped)
             del_nombre ==
                 (IF Len(nombres) > MAX_NOMBRE
                  THEN <<Falta(row_num, "largo")>> ELSE <<>>)
                 \o (IF nombres = <<>> \/ strip(nombres) = <<>>
                     THEN <<Falta(row_num, "vacio")>> ELSE <<>>)
             del_correo ==
                 IF ~email_regex(correo_stripped)
                 THEN <<Falta(row_num, "formato")>>
                 ELSE IF caracteres_invalidos(correo_stripped) # {}
                 THEN <<Falta(row_num, "caracteres")>>
                 ELSE IF EmpiezaOTermina(local_part(correo_stripped))
                 THEN <<Falta(row_num, "extremos")>>
                 ELSE IF Contiene(<<".", ".">>, correo_stripped)
                 THEN <<Falta(row_num, "puntos")>>
                 ELSE IF correo_lower \in correos_vistos
                 THEN <<Falta(row_num, "duplicado")>>
                 ELSE <<>>
             vistos == IF del_correo = <<>>
                       THEN correos_vistos \cup {correo_lower}
                       ELSE correos_vistos
         IN del_nombre \o del_correo
               \o validate_data(estudiantes, k + 1, vistos)

Estudiantes_ok(estudiantes) ==
    [tipo |-> "ok", motivo |-> "", estudiantes |-> estudiantes,
     errores |-> <<>>]
ExcelParseError(motivo, errores) ==
    [tipo |-> "ExcelParseError", motivo |-> motivo, estudiantes |-> <<>>,
     errores |-> errores]

\* ExcelParser.parse: the columns from the first row, the data from the
\* second row on, the validation
parse(hoja) ==
    IF Len(hoja) < 1 THEN ExcelParseError("vacio", <<>>)
    ELSE LET nombres_col_index == PrimeraColumna(hoja[1], NOMBRES_HEADERS)
             correo_col_index == PrimeraColumna(hoja[1], CORREO_HEADERS)
         IN IF nombres_col_index = 0 THEN ExcelParseError("sin_nombres", <<>>)
            ELSE IF correo_col_index = 0
            THEN ExcelParseError("sin_correo", <<>>)
            ELSE LET estudiantes == extract_data(hoja, 2, nombres_col_index,
                                                 correo_col_index)
                     errores == validate_data(estudiantes, 1, {})
                 IN IF estudiantes = <<>>
                    THEN ExcelParseError("sin_estudiantes", <<>>)
                    ELSE IF errores # <<>>
                    THEN ExcelParseError("validacion", errores)
                    ELSE Estudiantes_ok(estudiantes)

\* The sheets of the roster check: a header row and up to MaxFilas rows
\* drawn from names and e-mails that are blank, valid, or broken in each of
\* the ways _validate_data looks for.
NombreLargo == [k \in 1..(MAX_NOMBRE + 1) |-> "n"]
CeldasNombre == {<<>>, <<" ">>, <<"A", "n", "a">>, NombreLargo}
CeldasCorreo ==
    {<<>>,
      <<"a", "n", "a", "@", "u", "n", "i", ".", "e", "c">>,
      <<"A", "N", "A", "@", "u", "n", "i", ".", "e", "c", " ">>,
      <<"l", "u", "i", "s", "@", "u", "n", "i", ".", "e", "c">>,
      <<"a", "n", "a">>,
      <<"a", ".", "@", "u", "n", "i", ".", ".", "e", "c">>,
      <<"a", ".", ".", "b", "@", "u", "n", "i", ".", "e", "c">>}
EncabezadoFijo == <<<<" ", "N", "o", "m", "b", "r", "e", "s">>, <<"C", "o", "r", "r", "e", "o", " ", "e", "l", "e", "c", "t", "r", "ó", "n", "i", "c", "o">>>>
HojasExcel ==
    {<<EncabezadoFijo>> \o f :
        f \in UNION {[1..n -> CeldasNombre \X CeldasCorreo] :
                         n \in 0..MaxFilas}}

InitExcel ==
    /\ Reposo
    /\ plantillas = <<>>
    /\ entrada \in HojasExcel
    /\ salida = <<>>

NextExcel ==
    /\ salida = <<>>
    /\ salida' = <<parse(entrada)>>
    /\ UNCHANGED <<bd, reloj, celery, peticiones, ultima, presupuesto,
                   entregas, plantillas, guardando, entrada>>

SpecExcel == InitExcel /\ [][NextExcel]_vars

\* ------------------------------------------- header row of a roster
\* ExcelProcessMixin.procesar_excel: the keywords of the name and of the
\* identity-card column
col_keywords_nombres ==
    <<<<"n", "o", "m", "b", "r", "e", "s">>,
      <<"n", "o", "m", "b", "r", "e">>,
      <<"n", "o", "m", "b", "r", "e", " ", "c", "o", "m", "p", "l", "e", "t", "o">>,
      <<"e", "s", "t", "u", "d", "i", "a", "n", "t", "e">>,
      <<"n", "o", "m", "b", "r", "e", "s", " ", "y", " ", "a", "p", "e", "l", "l", "i", "d", "o", "s">>,
      <<"n", "o", "m", "b", "r", "e", "s", " ", "y", " ", "a", "p", "e", "l", "l", "i", "d", "o", "s", " ", "c", "o", "m", "p", "l", "e", "t", "o", "s">>,
      <<"a", "l", "u", "m", "n", "o">>>>
col_keywords_cedula ==
    <<<<"c", "e", "d", "u", "l", "a">>,
      <<"c", "é", "d", "u", "l", "a">>,
      <<"i", "d">>,
      <<"d", "n", "i">>,
      <<"i", "d", "e", "n", "t", "i", "f", "i", "c", "a", "c", "i", "ó", "n">>,
      <<"i", "d", "e", "n", "t", "i", "f", "i", "c", "a", "c", "i", "o", "n">>,
      <<"n", "r", "o", " ", "c", "e", "d", "u", "l", "a">>,
      <<"i", "d", "e", "n", "t", "i", "f", "i", "c", "a", "c", "i">>>>

\* str(val).strip().lower() of a cell pandas read: 'nan' for an empty one
val_clean(val) ==
    IF val = <<>> THEN <<"n", "a", "n">> ELSE str_lower(strip(val))

\* lines 47-54: some keyword is in some cell of the row
matches(row, keywords) ==
    \E k \in 1..Len(keywords), idx \in 1..Len(row) :
        Contiene(keywords[k], val_clean(row[idx]))

\* lines 39-64: the first of the first FILAS_CABECERA rows with a name and an
\* identity-card column, 0 when there is none (a warning, and nothing read)
header_row_index(df_raw) ==
    LET head == 1..(IF Len(df_raw) < FILAS_CABECERA THEN Len(df_raw)
                    ELSE FILAS_CABECERA)
        C == {i \in head : /\ matches(df_raw[i], col_keywords_nombres)
                           /\ matches(df_raw[i], col_keywords_cedula)}
    IN IF C = {} THEN 0 ELSE CHOOSE i \in C : \A j \in C : i <= j

\* The sheets of the header check: up to MaxTitulos title rows, a row of
\* three cells drawn from header texts, and one row of data in any order of
\* its columns.
Titulo == <<<<"L", "i", "s", "t", "a", "d", "o">>, <<"2", "0", "2", "6">>, <<"U", "N", "E", "M", "I">>>>
CeldasCabecera ==
    {<<>>, <<"N", "O", "M", "B", "R", "E">>, <<"E", "M", "A", "I", "L">>, <<"C", "o", "r", "r", "e", "o", " ", "E", "l", "e", "c", "t", "r", "ó", "n", "i", "c", "o">>,
      <<"C", "é", "d", "u", "l", "a">>, <<"N", "o">>}
DatosBase == <<<<"1">>, <<"A", "n", "a">>, <<"a", "n", "a", "@", "u", "n", "i", ".", "e", "c">>>>
Permutaciones(n) ==
    {f \in [1..n -> 1..n] : \A i, j \in 1..n : f[i] = f[j] => i = j}
Permutar(hoja, f) ==
    [k \in 1..Len(hoja) |-> [c \in 1..Len(f) |-> hoja[k][f[c]]]]
HojasCabecera ==
    {[k \in 1..n |-> Titulo] \o <<cab, [c \in 1..3 |-> DatosBase[f[c]]]>> :
        n \in 0..MaxTitulos, cab \in [1..3 -> CeldasCabecera],
        f \in Permutaciones(3)}

InitCabecera ==
    /\ Reposo
    /\ plantillas = <<>>
    /\ entrada \in HojasCabecera
    /\ salida = <<>>

NextCabecera ==
    /\ salida = <<>>
    /\ salida' = <<parse(entrada), header_row_index(entrada)>>
    /\ UNCHANGED <<bd, reloj, celery, peticiones, ultima, presupuesto,
                   entregas, plantillas, guardando, entrada>>

SpecCabecera == InitCabecera /\ [][NextCabecera]_vars

\* ------------------------------------------------- the two quota gates
\* DailyEmailLimit.puede_enviar_email: <<puede_enviar, emails_restantes>>
puede_enviar_email ==
    LET emails_restantes == EMAIL_DAILY_LIMIT - emails_enviados
    IN <<emails_restantes > 0, emails_restantes>>

\* DailyEmailLimit.puede_enviar_lote: <<puede_enviar, emails_restantes>>
DailyEmailLimit_puede_enviar_lote(cantidad) ==
    LET restantes == puede_enviar_email[2]
    IN IF cantidad > restantes THEN <<FALSE, restantes>>
       ELSE <<TRUE, restantes>>

\* EmailDailyLimit.puede_enviar_lote: <<puede_enviar, emails_restantes>>
EmailDailyLimit_puede_enviar_lote(cantidad) ==
    LET restantes == get_remaining_today
    IN <<puede_enviar_lote(cantidad, restantes), restantes>>

\* DailyEmailLimit.incrementar_contador(cantidad), by one caller at a time
incrementar_contador(cantidad) ==
    /\ emails_enviados + cantidad <= EMAIL_DAILY_LIMIT + MaxExceso
    /\ emails_enviados' = emails_enviados + cantidad
    /\ UNCHANGED <<certs, lote, count, reloj, celery, peticiones, ultima,
                   presupuesto, entregas, otros>>

\* a call of puede_enviar_lote(cantidad) of each class, kept with the counter
\* of incrementar_contador at the time of the call
ConsultarLote(cantidad) ==
    /\ salida' = <<[cantidad |-> cantidad,
                    contados |-> emails_enviados,
                    daily |-> DailyEmailLimit_puede_enviar_lote(cantidad),
                    email |-> EmailDailyLimit_puede_enviar_lote(cantidad)]>>
    /\ UNCHANGED <<bd, reloj, celery, peticiones, ultima, presupuesto,
                   entregas, plantillas, guardando, entrada>>

InitLimite ==
    /\ certs = <<>>
    /\ lote = SinLote
    /\ emails_enviados = 0
    /\ count = 0
    /\ reloj = 1
    /\ cola = EmptyBag
    /\ tareas = EmptyBag
    /\ progreso = EmptyBag
    /\ peticiones = EmptyBag
    /\ ultima = [res |-> "", restantes |-> 0, n |-> 0]
    /\ presupuesto = [solicitudes |-> 0, fallos |-> 0,
                      incrementos |-> MaxCuenta]
    /\ entregas = <<>>
    /\ plantillas = <<>>
    /\ guardando = EmptyBag
    /\ entrada = <<>>
    /\ salida = <<>>

NextLimite ==
    \/ \E cantidad \in 1..EMAIL_DAILY_LIMIT : incrementar_contador(cantidad)
    \/ increment_count
    \/ \E cantidad \in 0..(EMAIL_DAILY_LIMIT + 1) : ConsultarLote(cantidad)

SpecLimite == InitLimite /\ [][NextLimite]_vars

\* ------------------------------------------------------- bulk download
\* EventoDetailView.download_zip on the certificates of the event, with
\* enDisco the certificates whose PDF os.path.exists finds: a redirect with a
\* warning when no certificate is 'completed' with a PDF, else the archive
download_zip(enDisco) ==
    LET certificados == {c \in DOMAIN certs : /\ certs[c].estado = "completed"
                                              /\ certs[c].archivo_pdf}
    IN IF certificados = {}
       THEN [tipo |-> "redirect", archivos |-> {}]
       ELSE [tipo |-> "zip",
             archivos |-> {c \in certificados :
                              certs[c].archivo_pdf /\ c \in enDisco}]

\* the rows a certificate can be in: a PDF is there once generation ended
\* well, and stays through sending, a failed sending and a new request
ESTADO_CHOICES ==
    {"pending", "generating", "completed", "failed", "sending_email", "sent"}
FilaCertificado(e, est, pdf) ==
    [NuevoCertificado(e) EXCEPT !.estado = est, !.archivo_docx = pdf,
                                !.archivo_pdf = pdf,
                                !.enviado_email = (est = "sent"),
                                !.intentos_envio = IF est = "sent" THEN 1
                                                   ELSE 0]
FilasCertificado(e) ==
    {FilaCertificado(e, est, pdf) :
        est \in ESTADO_CHOICES,
        pdf \in BOOLEAN} \
    {FilaCertificado(e, est, FALSE) :
        est \in {"completed", "sending_email", "sent"}}
TablasCertificado ==
    {t \in UNION {[1..n -> UNION {FilasCertificado(e) : e \in 1..NumEst}] :
                     n \in 0..NumEst} :
        \A c \in DOMAIN t : t[c].estudiante = c}

InitZip ==
    /\ certs \in TablasCertificado
    /\ lote = SinLote
    /\ emails_enviados = 0
    /\ count = 0
    /\ reloj = 1
    /\ cola = EmptyBag
    /\ tareas = EmptyBag
    /\ progreso = EmptyBag
    /\ peticiones = EmptyBag
    /\ ultima = [res |-> "", restantes |-> 0, n |-> 0]
    /\ presupuesto = [solicitudes |-> 0, fallos |-> 0, incrementos |-> 0]
    /\ entregas = <<>>
    /\ plantillas = <<>>
    /\ guardando = EmptyBag
    /\ entrada \in SUBSET {c \in DOMAIN certs : certs[c].archivo_pdf}
    /\ salida = <<>>

NextZip ==
    /\ salida = <<>>
    /\ salida' = <<download_zip(entrada)>>
    /\ UNCHANGED <<bd, reloj, celery, peticiones, ultima, presupuesto,
                   entregas, plantillas, guardando, entrada>>

SpecZip == InitZip /\ [][NextZip]_vars

\* ================================================================ claims
RECURSIVE Suma(_)
Suma(s) == IF s = <<>> THEN 0 ELSE Head(s) + Suma(Tail(s))

\* e-mails the send task has delivered
TotalEntregas == Suma(entregas)

\* nothing is queued, running or being requested
Quieto ==
    /\ cola = EmptyBag
    /\ tareas = EmptyBag
    /\ progreso = EmptyBag
    /\ peticiones = EmptyBag

\* C1: a certificate's estado changes only along pending->generating,
\* generating->completed, generating->failed, completed->sending_email,
\* sending_email->sent and sending_email->failed (the latter by a send task
\* out of retries), or to pending by a request that enqueues its generation;
\* in particular nothing but such a request leaves failed.
AristasPermitidas ==
    {<<"pending", "generating">>, <<"generating", "completed">>,
     <<"generating", "failed">>, <<"completed", "sending_email">>,
     <<"sending_email", "sent">>, <<"sending_email", "failed">>}

AristaValida(c) ==
    LET de == certs[c].estado
        a == certs'[c].estado
    IN \/ de = a
       \/ /\ <<de, a>> \in AristasPermitidas
          /\ <<de, a>> = <<"sending_email", "failed">> =>
                \E i \in BagToSet(tareas) :
                    i.t = "send" /\ i.id = c /\ i.retries = SEND_MAX_RETRIES
       \/ /\ a = "pending"
          /\ CopiesIn(Msg("gen", c, 0), cola')
                > CopiesIn(Msg("gen", c, 0), cola)

C1_CicloDeVida == [][\A c \in DOMAIN certs : AristaValida(c)]_vars

\* C2: there is at most one Certificado row per (evento, estudiante).
C2_UnCertificadoPorEstudiante ==
    \A c, d \in DOMAIN certs :
        certs[c].estudiante = certs[d].estudiante => c = d

\* C3: the daily counter never exceeds the configured daily limit.
C3_ContadorBajoLimite == emails_enviados <= EMAIL_DAILY_LIMIT

\* C4: once every send task that sent an e-mail has finished its
\* incrementar_contador(1), the counter equals the number of those calls.
C4_IncrementosSerializados ==
    (\A i \in BagToSet(tareas) : i.pc # "contar")
        => emails_enviados = TotalEntregas

\* C5: when the certificates ready to send outnumber the remaining daily
\* allowance, initiate_sending_lote raises the gate's error in the step that
\* starts it: no task is enqueued, no certificate and no lot changes.
EnvioLoteIniciado ==
    /\ presupuesto'.solicitudes < presupuesto.solicitudes
    /\ ultima'.n = presupuesto.solicitudes

C5_RechazoPrevio ==
    [][(EnvioLoteIniciado /\ Cardinality(Listos) > get_remaining_today)
          => /\ ultima'.res = "limite"
             /\ UNCHANGED <<certs, lote, emails_enviados, count, cola,
                            tareas, progreso, peticiones, entregas>>]_vars

C5_Witness ==
    /\ ultima.res = "limite"
    /\ Cardinality(Listos) > ultima.restantes

\* C6: the allowance the batch gate compares with is the limit minus the
\* certificate e-mails the send task has sent (and counted) today.
C6_GateLeeEnviados ==
    [][(EnvioLoteIniciado /\ ultima'.res \in {"limite", "admitido"}
            /\ (\A i \in BagToSet(tareas) : i.pc # "contar")
            /\ TotalEntregas <= EMAIL_DAILY_LIMIT)
          => ultima'.restantes = EMAIL_DAILY_LIMIT - TotalEntregas]_vars

\* C7: after actualizar_contadores the lot is pending when nothing is
\* processed, processing when fewer than total are, completed when all are
\* with no failure, failed when all are with no success, partial otherwise;
\* 10 recipients with 7 succeeded and 2 failed give processing, and partial
\* once the tenth is processed.
EstadoDerivado(total, exitosos, fallidos) ==
    LET procesados == exitosos + fallidos IN
    CASE procesados = 0 -> "pending"
      [] procesados > 0 /\ procesados < total -> "processing"
      [] procesados > 0 /\ procesados >= total /\ fallidos = 0 -> "completed"
      [] procesados > 0 /\ procesados >= total /\ exitosos = 0 -> "failed"
      [] OTHER -> "partial"

C7_EstadoDelLote ==
    (lote # SinLote /\ cola = EmptyBag /\ progreso = EmptyBag) =>
        /\ lote.exitosos = Completados
        /\ lote.fallidos = Fallidos
        /\ lote.procesados = Completados + Fallidos
        /\ lote.estado =
              EstadoDerivado(lote.total_estudiantes, Completados, Fallidos)
        /\ (lote.total_estudiantes = 10 /\ Completados = 7 /\ Fallidos = 2)
              => lote.estado = "processing"
        /\ (lote.total_estudiantes = 10 /\ Completados + Fallidos = 10
              /\ Completados >= 7 /\ Fallidos >= 2)
              => lote.estado = "partial"

C7_Witness ==
    /\ cola = EmptyBag /\ progreso = EmptyBag
    /\ lote.total_estudiantes = 10
    /\ Completados = 8 /\ Fallidos = 2
    /\ lote.estado = "partial"

\* C8: when the only request is one batch generation and nothing fails, the
\* pipeline comes to rest with every certificate sent and the lot completed
\* with total = succeeded = NumEst and failed = 0.
SoloUnLote ==
    /\ lote # SinLote
    /\ presupuesto.solicitudes = MaxSolicitudes - NumEst

C8_LoteCompleto ==
    (Quieto /\ SoloUnLote /\ presupuesto.fallos = MaxFallos) =>
        /\ Len(certs) = NumEst
        /\ \A c \in DOMAIN certs : certs[c].estado = "sent"
        /\ lote.estado = "completed"
        /\ lote.total_estudiantes = NumEst
        /\ lote.exitosos = NumEst
        /\ lote.fallidos = 0

\* C9: a certificate that fails does not keep the others from finishing: after
\* one batch generation the pipeline comes to rest with every certificate
\* sent or failed, and with the lot partial when there are both.
C9_FalloAislado ==
    (Quieto /\ SoloUnLote) =>
        /\ \A c \in DOMAIN certs : certs[c].estado \in {"sent", "failed"}
        /\ ((\E c \in DOMAIN certs : certs[c].estado = "sent")
              /\ (\E c \in DOMAIN certs : certs[c].estado = "failed"))
              => lote.estado = "partial"

\* C10: while a certificate is pending or generating no send task e-mails it
\* or marks it sending_email or sent.
C10_GeneracionAntesDeEnvio ==
    [][\A c \in DOMAIN certs :
          certs[c].estado \in {"pending", "generating"} =>
              /\ entregas'[c] = entregas[c]
              /\ certs'[c].estado \notin {"sending_email", "sent"}]_vars

\* C11: a generation request (batch, individual or admin retry) for a
\* certificate that is not pending leaves it pending with an empty error
\* message in the step that dispatches its generation task.
GeneracionPedida(c) ==
    CopiesIn(Msg("gen", c, 0), cola') > CopiesIn(Msg("gen", c, 0), cola)

C11_ReinicioLimpiaError ==
    [][\A c \in DOMAIN certs :
          (GeneracionPedida(c) /\ certs[c].estado # "pending") =>
              /\ certs'[c].estado = "pending"
              /\ certs'[c].error_mensaje = ""]_vars

\* C13: at most one PlantillaBase per Direccion is active, in every state
\* the concurrent saves of active templates can reach.
C13_UnaActivaPorDireccion ==
    \A d \in Direcciones : Cardinality(Activas(plantillas, d)) <= 1

\* two activations of one department ran concurrently and one was refused
C13_Witness ==
    /\ salida = <<"IntegrityError">>
    /\ \E d \in Direcciones :
          /\ Cardinality(Activas(plantillas, d)) = 1
          /\ Cardinality({p \in DOMAIN plantillas :
                             plantillas[p].direccion = d}) >= 2

\* C12: template resolution answers the selected variant's file when the
\* variant is active and has a file; otherwise the file of the one active
\* base template of the event's department; and when there is neither it
\* fails with TemplateNotFoundError naming the department.
VarianteUtil(ev) ==
    /\ ev.plantilla_seleccionada.existe
    /\ ev.plantilla_seleccionada.activo
    /\ ev.plantilla_seleccionada.archivo

BasesUtiles(ev) ==
    {p \in DOMAIN plantillas :
        /\ plantillas[p].direccion = ev.direccion
        /\ plantillas[p].es_activa
        /\ plantillas[p].archivo}

C12_ResolucionDePlantilla ==
    salida # <<>> =>
        LET ev == entrada[1]
            r == salida[1]
        IN IF VarianteUtil(ev) THEN r.res = "variante"
           ELSE IF BasesUtiles(ev) # {}
           THEN r.res = "base" /\ BasesUtiles(ev) = {r.pk}
           ELSE r.res = "TemplateNotFoundError"
                   /\ r.direccion = ev.direccion

\* an event whose variant is inactive falls back to the base template
C12_Witness ==
    /\ salida # <<>>
    /\ salida[1].res = "base"
    /\ entrada[1].plantilla_seleccionada.existe
    /\ entrada[1].plantilla_seleccionada.archivo
    /\ ~entrada[1].plantilla_seleccionada.activo

\* C14 as stated: for every paragraph and every map, no placeholder whose
\* name is a key is left in the output, and every placeholder whose name is
\* no key is still there.
RECURSIVE Ocurrencias(_, _, _)
Ocurrencias(t, i, p) ==
    IF i > Len(t) THEN 0
    ELSE (IF EmpiezaEn(t, i, p) THEN 1 ELSE 0) + Ocurrencias(t, i + 1, p)

Nombres(t) == {findall(t, 1)[k] : k \in 1..Len(findall(t, 1))}

SinResiduo(t, variables, out) ==
    \A n \in Nombres(t) :
        n \in DOMAIN variables => Ocurrencias(out, 1, placeholder(n)) = 0

AusentesIntactas(t, variables, out) ==
    \A n \in Nombres(t) :
        n \notin DOMAIN variables =>
            Ocurrencias(out, 1, placeholder(n))
                >= Ocurrencias(t, 1, placeholder(n))

C14_SinResiduoSiempre ==
    salida # <<>> =>
        /\ SinResiduo(entrada[1], entrada[2], salida[1])
        /\ AusentesIntactas(entrada[1], entrada[2], salida[1])

\* the paragraph's braces all belong to placeholders
RECURSIVE BienFormado(_, _)
BienFormado(t, i) ==
    IF i > Len(t) THEN TRUE
    ELSE LET f == FinDeVariable(t, i)
         IN IF f # 0 THEN BienFormado(t, f + 1)
            ELSE t[i] \notin {"{", "}"} /\ BienFormado(t, i + 1)

ValoresLlanos(variables) ==
    \A n \in DOMAIN variables :
        \A k \in 1..Len(variables[n]) : variables[n][k] \notin {"{", "}"}

\* the paragraph with each placeholder, taken once from left to right,
\* replaced by its value when its name is a key and kept when it is not
RECURSIVE Sustituido(_, _, _)
Sustituido(t, i, variables) ==
    IF i > Len(t) THEN <<>>
    ELSE LET f == FinDeVariable(t, i)
             n == SubSeq(t, i + 2, f - 2)
         IN IF f = 0 THEN <<t[i]>> \o Sustituido(t, i + 1, variables)
            ELSE (IF n \in DOMAIN variables THEN variables[n]
                  ELSE SubSeq(t, i, f))
                     \o Sustituido(t, f + 1, variables)

\* C14: for a paragraph whose braces all belong to placeholders and a map
\* whose values hold no brace, every placeholder whose name is a key is
\* replaced by its value and none is left, and every placeholder whose name
\* is no key is left as it is.
C14_Sustitucion ==
    (salida # <<>> /\ BienFormado(entrada[1], 1) /\ ValoresLlanos(entrada[2]))
        => /\ salida[1] = Sustituido(entrada[1], 1, entrada[2])
           /\ SinResiduo(entrada[1], entrada[2], salida[1])
           /\ AusentesIntactas(entrada[1], entrada[2], salida[1])

C14_Witness ==
    /\ salida # <<>>
    /\ entrada[1] = placeholder(<<"A">>) \o <<"x">> \o placeholder(<<"B">>)
    /\ DOMAIN entrada[2] = {<<"A">>}
    /\ entrada[2][<<"A">>] = <<"x">>
    /\ salida[1] = <<"x", "x">> \o placeholder(<<"B">>)

\* ------------------------------------------------------------------- C15
Blanco(c) == \A k \in 1..Len(c) : c[k] = " "
EnMayusculas(t) ==
    [k \in 1..Len(t) |->
        IF t[k] \in DOMAIN Mayuscula THEN Mayuscula[t[k]] ELSE t[k]]
IgualSinCaja(a, b) == EnMayusculas(a) = EnMayusculas(b)
FormatoValido(c) ==
    /\ email_regex(c)
    /\ caracteres_invalidos(c) = {}
    /\ ~EmpiezaOTermina(local_part(c))
    /\ ~Contiene(<<".", ".">>, c)

\* the rows after the header of a sheet under EncabezadoFijo with a name and
\* an e-mail that are both not blank
FilasCompletas(hoja) ==
    {k \in 2..Len(hoja) : ~Blanco(hoja[k][1]) /\ ~Blanco(hoja[k][2])}

\* est lists the rows of F in the order of the sheet, without the blanks
\* around each cell
ListaDe(est, hoja, F) ==
    /\ Len(est) = Cardinality(F)
    /\ {est[i].row_number : i \in 1..Len(est)} = F
    /\ \A i, j \in 1..Len(est) :
           i < j => est[i].row_number < est[j].row_number
    /\ \A i \in 1..Len(est) :
           /\ est[i].nombres_completos = strip(hoja[est[i].row_number][1])
           /\ est[i].correo_electronico = strip(hoja[est[i].row_number][2])

\* C15: when parse accepts a roster, what it returns is, in sheet order,
\* exactly the rows after the header whose name and e-mail are both not blank
\* (the other rows are left out, and are no error), every returned e-mail has
\* a valid format, and no two returned e-mails are equal ignoring case; a
\* roster whose complete rows are all well formed and hold the same e-mail
\* twice, ignoring case, is rejected with a duplicate-e-mail error.
C15_ParseDevuelveLasFilasCompletas ==
    salida # <<>> =>
        LET r == salida[1]
            F == FilasCompletas(entrada)
            repetido ==
                \E i, j \in F :
                    /\ i < j
                    /\ IgualSinCaja(strip(entrada[i][2]),
                                    strip(entrada[j][2]))
        IN /\ r.tipo = "ok" =>
                 /\ ListaDe(r.estudiantes, entrada, F)
                 /\ \A i \in 1..Len(r.estudiantes) :
                        FormatoValido(r.estudiantes[i].correo_electronico)
                 /\ \A i, j \in 1..Len(r.estudiantes) :
                        i # j =>
                            ~IgualSinCaja(
                                r.estudiantes[i].correo_electronico,
                                r.estudiantes[j].correo_electronico)
           /\ (/\ repetido
               /\ \A k \in F :
                      /\ FormatoValido(strip(entrada[k][2]))
                      /\ Len(strip(entrada[k][1])) <= MAX_NOMBRE) =>
                 /\ r.tipo = "ExcelParseError"
                 /\ \E e \in 1..Len(r.errores) :
                        r.errores[e].razon = "duplicado"

\* an accepted roster of three rows, one of them left out for having only
\* one of its two cells filled
C15_Witness ==
    /\ salida # <<>>
    /\ salida[1].tipo = "ok"
    /\ Len(entrada) = 4
    /\ Len(salida[1].estudiantes) = 2
    /\ \E k \in 2..4 : Blanco(entrada[k][1]) # Blanco(entrada[k][2])

\* ------------------------------------------------------------------- C16
\* the reasons that apply to row k of a sheet under EncabezadoFijo
Razones(hoja, k) ==
    LET nombres == strip(hoja[k][1])
        correo == strip(hoja[k][2])
    IN (IF Len(nombres) > MAX_NOMBRE THEN {"largo"} ELSE {})
       \cup (IF ~email_regex(correo) THEN {"formato"} ELSE {})
       \cup (IF caracteres_invalidos(correo) # {} THEN {"caracteres"}
             ELSE {})
       \cup (IF EmpiezaOTermina(local_part(correo)) THEN {"extremos"}
             ELSE {})
       \cup (IF Contiene(<<".", ".">>, correo) THEN {"puntos"} ELSE {})
       \cup (IF \E j \in FilasCompletas(hoja) :
                    j < k /\ IgualSinCaja(strip(hoja[j][2]), correo)
             THEN {"duplicado"} ELSE {})

\* C16: the error raised for a roster with violations lists every offending
\* row with every reason that applies to it (name too long, malformed e-mail,
\* forbidden character, local part starting or ending with '.' or '-',
\* consecutive points, duplicate e-mail).
C16_TodasLasRazones ==
    salida # <<>> =>
        \A k \in FilasCompletas(entrada) :
            \A razon \in Razones(entrada, k) :
                /\ salida[1].tipo = "ExcelParseError"
                /\ \E e \in 1..Len(salida[1].errores) :
                       salida[1].errores[e] = Falta(k, razon)

\* ------------------------------------------------------------------- C17
\* a row in which a name column and an e-mail column are identified
Calificada(fila) ==
    /\ PrimeraColumna(fila, NOMBRES_HEADERS) # 0
    /\ PrimeraColumna(fila, CORREO_HEADERS) # 0
SinCabecera == {"sin_nombres", "sin_correo"}

\* C17: the header is the first of the first 20 rows in which a name column
\* and an e-mail column are identified, the data are the rows after it, and
\* the header-not-found error is raised only when none of those rows
\* qualifies.
C17_CabeceraEnLasPrimerasFilas ==
    salida # <<>> =>
        LET C == {k \in 1..Len(entrada) :
                      k <= FILAS_CABECERA /\ Calificada(entrada[k])}
        IN IF C = {}
           THEN /\ salida[1].motivo \in SinCabecera
                /\ salida[2] = 0
           ELSE LET cab == CHOOSE k \in C : \A j \in C : k <= j
                    desde == parse(SubSeq(entrada, cab, Len(entrada)))
                IN /\ salida[1].motivo \notin SinCabecera
                   /\ salida[1].tipo = desde.tipo
                   /\ salida[1].motivo = desde.motivo
                   /\ Len(salida[1].estudiantes) = Len(desde.estudiantes)
                   /\ \A i \in 1..Len(desde.estudiantes) :
                          /\ salida[1].estudiantes[i].nombres_completos
                               = desde.estudiantes[i].nombres_completos
                          /\ salida[1].estudiantes[i].correo_electronico
                               = desde.estudiantes[i].correo_electronico
                          /\ salida[1].estudiantes[i].row_number > cab
                   /\ salida[2] = cab

\* ------------------------------------------------------------------- C18
\* the header cell that is resolved for a set of options, <<"?">> when none
\* is
CeldaResuelta(fila, opciones) ==
    IF PrimeraColumna(fila, opciones) = 0 THEN <<"?">>
    ELSE fila[PrimeraColumna(fila, opciones)]

\* C18: permuting the columns of a sheet, header and data alike, changes
\* neither the header cell resolved as the name column, nor the one resolved
\* as the e-mail column, nor what parse returns.
C18_OrdenDeColumnas ==
    salida # <<>> =>
        \A f \in Permutaciones(Len(entrada[1])) :
            LET otra == Permutar(entrada, f)
            IN /\ CeldaResuelta(otra[1], NOMBRES_HEADERS)
                    = CeldaResuelta(entrada[1], NOMBRES_HEADERS)
               /\ CeldaResuelta(otra[1], CORREO_HEADERS)
                    = CeldaResuelta(entrada[1], CORREO_HEADERS)
               /\ parse(otra) = salida[1]

\* ------------------------------------------------------------------- C19
\* what the claim expects of a call with c e-mails counted
Esperado(cantidad, c) ==
    <<cantidad <= EMAIL_DAILY_LIMIT - c, EMAIL_DAILY_LIMIT - c>>
PuertaDaily ==
    salida # <<>> =>
        salida[1].daily = Esperado(salida[1].cantidad, salida[1].contados)
PuertaEmail ==
    salida # <<>> =>
        salida[1].email = Esperado(salida[1].cantidad, salida[1].contados)

\* C19: with c e-mails counted today by incrementar_contador and the limit
\* L, puede_enviar_lote(n) answers allowed = (n <= L - c) and remaining =
\* L - c: on a fresh day puede_enviar_lote(L + 1) is (false, L), and after
\* incrementar_contador(L) puede_enviar_lote(1) is (false, 0).
C19_PuertaDeCuota == PuertaDaily /\ PuertaEmail

\* ------------------------------------------------------------------- C20
\* the certificates whose generation ended well, those e-mailed included,
\* and whose PDF is on disk
GeneradosEnDisco ==
    {c \in DOMAIN certs :
        /\ certs[c].archivo_pdf
        /\ certs[c].estado \in {"completed", "sending_email", "sent"}
        /\ c \in entrada}

\* C20: the archive of the event holds the PDF of every certificate that was
\* generated, those already e-mailed included, and whose file is on disk; a
\* certificate whose file is missing is left out and the archive is still
\* produced.
C20_ZipDeLosGenerados ==
    salida # <<>> =>
        /\ GeneradosEnDisco # {} => salida[1].tipo = "zip"
        /\ salida[1].tipo = "zip" => salida[1].archivos = GeneradosEnDisco

\* ------------------------------------------------------------------- C21
\* the step is a failed attempt of the running send task i
FalloDeEnvio(i) ==
    /\ i.t = "send"
    /\ i.pc = "enviar"
    /\ presupuesto'.fallos < presupuesto.fallos
    /\ CopiesIn(i, tareas') < CopiesIn(i, tareas)

\* C21: a failed send attempt adds exactly one to intentos_envio; it is one
\* of at most 5 attempts of its send request (attempt retries + 1), it is
\* retried while attempts are left, and the last one marks the certificate
\* failed with the send error stored.
C21_ReintentosDeEnvio ==
    [][\A i \in BagToSet(tareas) :
          FalloDeEnvio(i) =>
              /\ certs'[i.id].intentos_envio = certs[i.id].intentos_envio + 1
              /\ certs'[i.id].error_mensaje = "envio"
              /\ i.retries + 1 <= SEND_MAX_RETRIES
              /\ IF i.retries + 1 < SEND_MAX_RETRIES
                 THEN CopiesIn(Msg("send", i.id, i.retries + 1), cola')
                          > CopiesIn(Msg("send", i.id, i.retries + 1), cola)
                 ELSE /\ certs'[i.id].estado = "failed"
                      /\ \A r \in 0..(SEND_MAX_RETRIES + 1) :
                             CopiesIn(Msg("send", i.id, r), cola') = 0]_vars

\* ------------------------------------------------------------------- C22
NuevoMensaje(m) == CopiesIn(m, cola') > CopiesIn(m, cola)

\* C22: a failed generation attempt leaves the certificate failed with the
\* error stored; it is one of at most 3 attempts of its request (attempt
\* retries + 1); when its error is recoverable ('timeout' or 'temporary' in
\* its text) and attempts are left it is retried, and otherwise it is not.
C22_ReintentosDeGeneracion ==
    [][\A i \in BagToSet(tareas) : \A recuperable \in BOOLEAN :
          GenFallo(i, recuperable) =>
              /\ certs'[i.id].estado = "failed"
              /\ certs'[i.id].error_mensaje = "generacion"
              /\ i.retries + 1 <= GEN_MAX_RETRIES
              /\ NuevoMensaje(Msg("gen", i.id, i.retries + 1))
                    <=> (recuperable /\ i.retries + 1 < GEN_MAX_RETRIES)]_vars

\* ------------------------------------------------------------------- C23
\* C23: an error that cannot be recovered from ends the task at once: the
\* generation task whose error is not recoverable, and the send task that
\* finds its certificate without a PDF, leave the certificate failed with
\* the error stored and enqueue no retry.
C23_ErrorTerminal ==
    [][/\ \A i \in BagToSet(tareas) :
             GenFallo(i, FALSE) =>
                 /\ certs'[i.id].estado = "failed"
                 /\ certs'[i.id].error_mensaje # ""
                 /\ ~NuevoMensaje(Msg("gen", i.id, i.retries + 1))
       /\ \A m \in BagToSet(cola) :
             (EnvioInicio(m) /\ ~certs[m.id].archivo_pdf) =>
                 /\ certs'[m.id].estado = "failed"
                 /\ certs'[m.id].error_mensaje # ""
                 /\ ~NuevoMensaje(Msg("send", m.id, m.retries + 1))]_vars

\* ------------------------------------------------------------------- C24
\* C24: once every task of the batch has finished, update_batch_progress
\* tasks included, the lot's processed, succeeded and failed counters and
\* its state are the ones derived from the certificate rows.
C24_RecalculoConcurrente ==
    (Quieto /\ lote # SinLote) =>
        /\ lote.exitosos = Completados
        /\ lote.fallidos = Fallidos
        /\ lote.procesados = Completados + Fallidos
        /\ lote.estado =
              EstadoDerivado(lote.total_estudiantes, Completados, Fallidos)

\* ------------------------------------------------------------------- C25
\* C25: within one batch run the lot has a fecha_fin whenever it is saved in
\* a terminal state, and a fecha_fin once set is never changed or removed by
\* a later recomputation.
C25_FechaFinUnaVez ==
    [][/\ (lote'.estado \in Terminal) => lote'.fecha_fin # 0
       /\ lote.fecha_fin # 0 => lote'.fecha_fin = lote.fecha_fin]_vars

\* ------------------------------------------------------------------- C26
\* C26: a certificate in state completed has its DOCX and its PDF set and an
\* empty error message.
C26_CompletadoConArchivos ==
    \A c \in DOMAIN certs :
        certs[c].estado = "completed" =>
            /\ certs[c].archivo_docx
            /\ certs[c].archivo_pdf
            /\ certs[c].error_mensaje = ""

\* ------------------------------------------------------------------- C27
\* C27: when each certificate is generated once (one batch generation) the
\* recipient of a certificate gets at most one e-mail with it, whatever the
\* order of the send enqueued after generation and of batch send requests.
C27_UnCorreoPorGeneracion ==
    \A c \in DOMAIN certs : entregas[c] <= 1

\* ------------------------------------------------------------------- C28
\* C28: with no new request, a lot that is in a terminal state is not taken
\* out of the terminal states by a task of the running pipeline, and its
\* processed counter does not decrease.
C28_TerminalEstable ==
    [][lote.estado \in Terminal =>
          /\ lote'.estado \in Terminal
          /\ lote'.procesados >= lote.procesados]_vars

\* ------------------------------------------------------------------- C29
\* e-mails the campaign has sent
EnviadosDeCampana ==
    Cardinality({r \in DOMAIN entrada : entrada[r] = "sent"})

\* C29: when no send task is between its e-mail and its increment, the daily
\* counter is the number of e-mails sent today, by the certificate send task
\* and by the campaign; a send that failed is not counted.
C29_ContadorIgualAEnviados ==
    (\A i \in BagToSet(tareas) : i.pc # "contar")
        => emails_enviados = TotalEntregas + EnviadosDeCampana

\* ------------------------------------------------------------------- C30
\* C30: substitution is single-pass: for a paragraph whose braces all belong
\* to placeholders, the new text is the paragraph with each of its own
\* placeholders replaced once, from left to right; a value that holds a
\* placeholder appears as it is, even when that placeholder's name is a key
\* and the placeholder also occurs elsewhere in the paragraph.
C30_UnaSolaPasada ==
    (salida # <<>> /\ BienFormado(entrada[1], 1))
        => salida[1] = Sustituido(entrada[1], 1, entrada[2])

====
